---------------------------- MODULE Spec2Model ----------------------------
(***************************************************************************)
(* A model of demoizer.py: the start-up (get_files_to_process), the job    *)
(* loop, and process_html_file with its four rewrite passes, the sanitizer *)
(* and the final write.                                                    *)
(*                                                                         *)
(* Strings are TLA+ strings handled character by character (Len, SubSeq,   *)
(* \o), so that startswith, urljoin, the url(...) regular expression,      *)
(* str.replace, os.path.relpath and create_local_filename are computed as  *)
(* the code computes them.  A parsed document is the sequence of its       *)
(* elements, each with a tag, its attributes and its text; the parser and  *)
(* the serializer are collaborators that are not modelled further.         *)
(***************************************************************************)
EXTENDS Integers, Sequences, FiniteSets, TLC

(***************************************************************************)
(* Python str methods                                                      *)
(***************************************************************************)
CharAt(s, i) == SubSeq(s, i, i)

StartsWith(s, p) == Len(s) >= Len(p) /\ SubSeq(s, 1, Len(p)) = p

EndsWith(s, p) == Len(s) >= Len(p) /\ SubSeq(s, Len(s) - Len(p) + 1, Len(s)) = p

StartsWithAny(s, ps) == \E p \in ps : StartsWith(s, p)

\* s[i:] with a 1-based i
From(s, i) == SubSeq(s, i, Len(s))

\* str.find(sub, start): the first 1-based index >= start, 0 when there is none
Find(s, sub, start) ==
    LET hits == {i \in start..(Len(s) - Len(sub) + 1) : SubSeq(s, i, i + Len(sub) - 1) = sub}
    IN  IF hits = {} THEN 0 ELSE CHOOSE i \in hits : \A j \in hits : i <= j

\* str.rfind(sub): the last 1-based index, 0 when there is none
RFind(s, sub) ==
    LET hits == {i \in 1..(Len(s) - Len(sub) + 1) : SubSeq(s, i, i + Len(sub) - 1) = sub}
    IN  IF hits = {} THEN 0 ELSE CHOOSE i \in hits : \A j \in hits : i >= j

\* sub in s
Contains(s, sub) == Find(s, sub, 1) # 0

RECURSIVE Replace(_, _, _)
\* str.replace(old, new): every non-overlapping occurrence, left to right
Replace(s, old, new) ==
    LET i == Find(s, old, 1)
    IN  IF old = "" \/ i = 0 THEN s
        ELSE SubSeq(s, 1, i - 1) \o new \o Replace(From(s, i + Len(old)), old, new)

RECURSIVE Split(_, _)
\* str.split(sep)
Split(s, sep) ==
    LET i == Find(s, sep, 1)
    IN  IF i = 0 THEN <<s>>
        ELSE <<SubSeq(s, 1, i - 1)>> \o Split(From(s, i + Len(sep)), sep)

RECURSIVE Join(_, _)
\* sep.join(parts)
Join(parts, sep) ==
    IF parts = <<>> THEN ""
    ELSE IF Len(parts) = 1 THEN parts[1]
    ELSE parts[1] \o sep \o Join(Tail(parts), sep)

UpperChars == "ABCDEFGHIJKLMNOPQRSTUVWXYZ"

LowerChars == "abcdefghijklmnopqrstuvwxyz"

DigitChars == "0123456789"

HexChars == "0123456789abcdef"

RECURSIVE Lower(_)
\* str.lower()
Lower(s) ==
    IF s = "" THEN ""
    ELSE LET c == CharAt(s, 1)
             u == Find(UpperChars, c, 1)
         IN  (IF u = 0 THEN c ELSE CharAt(LowerChars, u)) \o Lower(From(s, 2))

\* c.isalnum() for the ASCII characters
IsAlnum(c) == Contains(UpperChars \o LowerChars \o DigitChars, c)

RECURSIVE Filter(_, _)
\* "".join(c for c in s if c.isalnum() or c in keep)
Filter(s, keep) ==
    IF s = "" THEN ""
    ELSE LET c == CharAt(s, 1)
         IN  (IF IsAlnum(c) \/ Contains(keep, c) THEN c ELSE "") \o Filter(From(s, 2), keep)

(***************************************************************************)
(* urllib.parse: urlparse, urlunparse and urljoin, as the library computes *)
(* them.  The ';params' part of a path is not split off: no reference of   *)
(* the model holds a ';' outside a data: URL, which is never parsed.       *)
(***************************************************************************)
SchemeChars == LowerChars \o UpperChars \o DigitChars \o "+-."

\* urllib.parse.uses_relative and uses_netloc, as far as references reach them
UsesRelative == {"", "http", "https", "ftp", "file"}

UsesNetloc == {"", "http", "https", "ftp", "file"}

RECURSIVE AllIn(_, _)
AllIn(s, chars) == s = "" \/ (Contains(chars, CharAt(s, 1)) /\ AllIn(From(s, 2), chars))

\* the first index >= start of one of the characters of chars, Len(s) + 1 when none
FindAny(s, chars, start) ==
    LET hits == {i \in start..Len(s) : Contains(chars, CharAt(s, i))}
    IN  IF hits = {} THEN Len(s) + 1 ELSE CHOOSE i \in hits : \A j \in hits : i <= j

\* s cut at index i, the n characters from i on left out; <<s, "">> when i = 0
CutAt(s, i, n) == IF i = 0 THEN <<s, "">> ELSE <<SubSeq(s, 1, i - 1), From(s, i + n)>>

\* s.split(sep, 1), with "" for the part that is missing
Partition(s, sep) == CutAt(s, Find(s, sep, 1), Len(sep))

\* urlsplit: the scheme before the ':' at index i, if the characters before it
\* are scheme characters, and the rest of the url
SchemeAt(url, i) ==
    IF i > 1 /\ AllIn(SubSeq(url, 1, i - 1), SchemeChars)
    THEN <<Lower(SubSeq(url, 1, i - 1)), From(url, i + 1)>>
    ELSE <<"", url>>

\* urlsplit: the netloc after '//' up to the delimiter at index delim
NetlocAt(rest, delim) ==
    IF StartsWith(rest, "//")
    THEN <<SubSeq(rest, 3, delim - 1), From(rest, delim)>>
    ELSE <<"", rest>>

ParseResult(scheme, netloc, path_query, fragment) ==
    [scheme |-> scheme, netloc |-> netloc, path |-> path_query[1],
     query |-> path_query[2], fragment |-> fragment]

ParseFragment(scheme, netloc, url_fragment) ==
    ParseResult(scheme, netloc, Partition(url_fragment[1], "?"), url_fragment[2])

ParseNetloc(scheme, netloc_rest) ==
    ParseFragment(scheme, netloc_rest[1], Partition(netloc_rest[2], "#"))

ParseScheme(default_scheme, scheme_rest) ==
    ParseNetloc(IF scheme_rest[1] = "" THEN default_scheme ELSE scheme_rest[1],
                NetlocAt(scheme_rest[2], FindAny(scheme_rest[2], "/?#", 3)))

\* urlparse(url, scheme=default_scheme)
urlparse(url, default_scheme) == ParseScheme(default_scheme, SchemeAt(url, Find(url, ":", 1)))

WithNetloc(p) ==
    IF p.netloc # "" \/ (p.scheme # "" /\ p.scheme \in UsesNetloc /\ ~StartsWith(p.path, "//"))
    THEN "//" \o p.netloc \o (IF p.path # "" /\ ~StartsWith(p.path, "/") THEN "/" ELSE "")
         \o p.path
    ELSE p.path

\* part, then sep before s or after it, when part is not empty
Prefixed(part, sep, s) == IF part # "" THEN part \o sep \o s ELSE s

Suffixed(s, sep, part) == IF part # "" THEN s \o sep \o part ELSE s

urlunparse(p) ==
    Suffixed(Suffixed(Prefixed(p.scheme, ":", WithNetloc(p)), "?", p.query), "#", p.fragment)

RECURSIVE DropEmpty(_)
\* filter(None, segments)
DropEmpty(segs) ==
    IF segs = <<>> THEN <<>>
    ELSE (IF segs[1] = "" THEN <<>> ELSE <<segs[1]>>) \o DropEmpty(Tail(segs))

RECURSIVE ResolveDots(_, _)
\* urljoin's loop over the segments: '..' pops, '.' is dropped
ResolveDots(segs, acc) ==
    IF segs = <<>> THEN acc
    ELSE IF segs[1] = ".." THEN
        ResolveDots(Tail(segs), IF acc = <<>> THEN acc ELSE SubSeq(acc, 1, Len(acc) - 1))
    ELSE IF segs[1] = "." THEN ResolveDots(Tail(segs), acc)
    ELSE ResolveDots(Tail(segs), Append(acc, segs[1]))

\* base_parts: the segments of the base path without its last, unless that is ''
BaseParts(parts) ==
    IF parts[Len(parts)] # "" THEN SubSeq(parts, 1, Len(parts) - 1) ELSE parts

\* segments[1:-1] = filter(None, segments[1:-1])
Squeezed(segs) ==
    IF Len(segs) <= 2 THEN segs
    ELSE <<segs[1]>> \o DropEmpty(SubSeq(segs, 2, Len(segs) - 1)) \o <<segs[Len(segs)]>>

Segments(bpath, path) ==
    IF StartsWith(path, "/") THEN Split(path, "/")
    ELSE Squeezed(BaseParts(Split(bpath, "/")) \o Split(path, "/"))

ResolvedPath(segments) ==
    IF segments[Len(segments)] \in {".", ".."}
    THEN Append(ResolveDots(segments, <<>>), "")
    ELSE ResolveDots(segments, <<>>)

\* '/'.join(resolved_path) or '/'
OrRoot(path) == IF path = "" THEN "/" ELSE path

\* urljoin once both URLs are parsed: b the base, u the reference
JoinParsed(url, b, u) ==
    IF u.scheme # b.scheme \/ u.scheme \notin UsesRelative THEN url
    ELSE IF u.scheme \in UsesNetloc /\ u.netloc # "" THEN urlunparse(u)
    ELSE urlunparse(
            [scheme   |-> u.scheme,
             netloc   |-> IF u.scheme \in UsesNetloc THEN b.netloc ELSE u.netloc,
             path     |-> IF u.path = "" THEN b.path
                          ELSE OrRoot(Join(ResolvedPath(Segments(b.path, u.path)), "/")),
             query    |-> IF u.path = "" /\ u.query = "" THEN b.query ELSE u.query,
             fragment |-> u.fragment])

JoinBase(url, b) == JoinParsed(url, b, urlparse(url, b.scheme))

urljoin(base, url) ==
    IF base = "" THEN url
    ELSE IF url = "" THEN base
    ELSE JoinBase(url, urlparse(base, ""))

(***************************************************************************)
(* os.path (POSIX)                                                         *)
(***************************************************************************)
basename(p) == From(p, RFind(p, "/") + 1)

RECURSIVE RStripSlash(_)
RStripSlash(s) == IF EndsWith(s, "/") THEN RStripSlash(SubSeq(s, 1, Len(s) - 1)) ELSE s

\* the head of dirname, without its trailing slashes unless it holds nothing else
StripHead(head) == IF head # "" /\ ~AllIn(head, "/") THEN RStripSlash(head) ELSE head

dirname(p) == StripHead(SubSeq(p, 1, RFind(p, "/")))

\* splitext with the last separator and the last dot found: a dot counts when a
\* character other than a dot stands between the separator and it
SplitExtAt(p, sepIndex, dotIndex) ==
    IF dotIndex > sepIndex /\ \E i \in (sepIndex + 1)..(dotIndex - 1) : CharAt(p, i) # "."
    THEN <<SubSeq(p, 1, dotIndex - 1), From(p, dotIndex)>>
    ELSE <<p, "">>

splitext(p) == SplitExtAt(p, RFind(p, "/"), RFind(p, "."))

\* os.path.join(a, b) for a directory a and a name b
pathjoin(a, b) ==
    IF StartsWith(b, "/") THEN b
    ELSE IF a = "" \/ EndsWith(a, "/") THEN a \o b
    ELSE a \o "/" \o b

\* the working directory of the run, as path components
Cwd == <<"work">>

RECURSIVE NormParts(_, _)
\* os.path.normpath on the components of an absolute path
NormParts(segs, acc) ==
    IF segs = <<>> THEN acc
    ELSE IF segs[1] \in {"", "."} THEN NormParts(Tail(segs), acc)
    ELSE IF segs[1] = ".." THEN
        NormParts(Tail(segs), IF acc = <<>> THEN acc ELSE SubSeq(acc, 1, Len(acc) - 1))
    ELSE NormParts(Tail(segs), Append(acc, segs[1]))

\* os.path.abspath(p), as its components
abspath(p) ==
    IF StartsWith(p, "/") THEN NormParts(Split(p, "/"), <<>>)
    ELSE NormParts(Cwd \o Split(p, "/"), <<>>)

RECURSIVE CommonLen(_, _)
CommonLen(a, b) ==
    IF a = <<>> \/ b = <<>> \/ a[1] # b[1] THEN 0 ELSE 1 + CommonLen(Tail(a), Tail(b))

\* ['..'] * (len(start_list) - i) + path_list[i:]
RelList(start_list, path_list, i) ==
    [n \in 1..(Len(start_list) - i) |-> ".."] \o SubSeq(path_list, i + 1, Len(path_list))

RelJoin(rel_list) == IF rel_list = <<>> THEN "." ELSE Join(rel_list, "/")

RelBetween(start_list, path_list) ==
    RelJoin(RelList(start_list, path_list, CommonLen(start_list, path_list)))

relpath(path, start) == RelBetween(abspath(start), abspath(path))

(***************************************************************************)
(* create_local_filename                                                   *)
(***************************************************************************)
\* hashlib.md5(url.encode()).hexdigest(), tabulated over the URLs that the
\* references of the model resolve to
md5_hexdigest ==
    "//cdn.example.com/a.png" :> "78763558beded0cb54b09cf989f8bacd" @@
    "http://cdn.example.com/a.png" :> "5831c82177bc778ef6d147b5ea8f3ec0" @@
    "http://example.com/favicon.ico" :> "2cd1af28a6f2479818750c7ec5dad4de" @@
    "http://example.com/logo.png" :> "cdf42c077fe6037681ae3c003550c2c5" @@
    "http://example.com/x/resources/favicon_2cd1af28.ico" :> "70ef14ebd2ce72bac4115828a488cf9c" @@
    "http://example.com/x/y/" :> "480f7d25961b03ef2fa00f24c0ebe40f" @@
    "http://example.com/x/y/#g" :> "327d5902e334fc94a27bb91cc9763025" @@
    "http://example.com/x/y/a.js" :> "a4d4effe5b0a07c475ecc6508d005355" @@
    "https://cdn.example.com/a.png" :> "a91f40201a5ed2925a5b2aebacb41033" @@
    "https://cdn9079.example.com/logo.png" :> "60cbf5dc5db5d46b88760ef133f1f067" @@
    "https://cdn92352.example.com/logo.png" :> "60cbf5dc3e7dd8e44b87259962f64b06" @@
    "https://example.com" :> "c984d06aafbecf6bc55569f964148ea3" @@
    "https://example.com#g" :> "b2749a9870cfae8805d450270dbc89ce" @@
    "https://example.com/a.js" :> "5d5ed55c8263753d4a8b11df043bf3c3" @@
    "https://example.com/css/site.css" :> "88d9adbea90f8cc9bdd18ed7d86fc5a6" @@
    "https://example.com/favicon.ico" :> "f54403d0da4a57aa79bdf459897f08bd" @@
    "https://example.com/fonts/f.woff2" :> "b76cbaeca4dbff694a55a918f47d14aa" @@
    "https://example.com/logo.png" :> "78761c8021e5276d6528b53665251f0f" @@
    "https://example.com/resources/favicon_f54403d0.ico" :> "34bd9dda6ec4ebfb4e1af78643988283" @@
    "https://www.google.com/a.js" :> "057fcb9be87ab38b52a8b7b6d8c54982" @@
    "https://www.google.com/logo.png" :> "e2f42a1d207aeeb60a2f29e212e64180"

\* hashlib.md5(url.encode()).hexdigest()[:8]
url_hash(url) == SubSeq(md5_hexdigest[url], 1, 8)

AnyKeyword(s, keywords) == \E w \in keywords : Contains(s, w)

\* 'Get the path and filename'
FilenameFromPath(parsed) ==
    IF parsed.path = "" \/ parsed.path = "/"
    THEN Replace(parsed.netloc, ".", "_") \o ".html"
    ELSE IF basename(parsed.path) # "" THEN basename(parsed.path)
    ELSE basename(dirname(parsed.path)) \o ".html"

\* 'Handle special Google bundled resources'
BundleName(path, filename) ==
    IF Contains(path, "xjs") /\ Contains(path, "_/ss/") THEN "google_bundle_styles.css"
    ELSE IF Contains(path, "xjs") /\ Contains(path, "_/js/") THEN "google_bundle_scripts.js"
    ELSE IF Contains(path, "/images/") /\ ~Contains(filename, ".") THEN filename \o ".png"
    ELSE filename

\* 'If no extension, try to guess from URL or default to .html'
GuessExtension(url_lower, filename) ==
    IF Contains(filename, ".") THEN filename
    ELSE IF AnyKeyword(url_lower, {"css", "style", "/ss/"}) THEN filename \o ".css"
    ELSE IF AnyKeyword(url_lower, {"js", "script", "/js/"}) THEN filename \o ".js"
    ELSE IF AnyKeyword(url_lower, {"font", "woff", "ttf"}) THEN filename \o ".woff2"
    ELSE IF AnyKeyword(url_lower, {"png", "jpg", "jpeg", "gif", "svg", "webp"})
    THEN filename \o ".png"
    ELSE filename \o ".html"

\* f"{name}_{url_hash}{ext}"
SafeFilename(name_ext, hash) == name_ext[1] \o "_" \o hash \o name_ext[2]

LocalFilename(url, resources_dir, parsed) ==
    pathjoin(resources_dir,
             SafeFilename(
                 splitext(Filter(GuessExtension(Lower(url),
                                                BundleName(parsed.path, FilenameFromPath(parsed))),
                                 ".-_")),
                 url_hash(url)))

create_local_filename(url, resources_dir) == LocalFilename(url, resources_dir, urlparse(url, ""))

(***************************************************************************)
(* re.findall(r'url\(["\']?([^"\')\s]+)["\']?\)', text)                     *)
(***************************************************************************)
QuoteChars == "\"'"

\* the characters the group [^"')\s] excludes
StopChars == "\"') \t\n\r\f"

IsQuoteAt(s, i) == i <= Len(s) /\ Contains(QuoteChars, CharAt(s, i))

RECURSIVE findall_css_urls(_, _)
\* a match that starts at i, its group running from a to e - 1 and its ')' due
\* at close: the match and those after it, or the matches from i + 1 on
MatchClose(s, i, a, e, close) ==
    IF e > a /\ close <= Len(s) /\ CharAt(s, close) = ")"
    THEN <<SubSeq(s, a, e - 1)>> \o findall_css_urls(s, close + 1)
    ELSE findall_css_urls(s, i + 1)

\* the group is greedy: it ends at e, the first excluded character from a on
MatchGroup(s, i, a, e) == MatchClose(s, i, a, e, IF IsQuoteAt(s, e) THEN e + 1 ELSE e)

\* the matches of the pattern in s from index i on, left to right, none overlapping
findall_css_urls(s, i) ==
    IF i + 3 > Len(s) THEN <<>>
    ELSE IF SubSeq(s, i, i + 3) # "url(" THEN findall_css_urls(s, i + 1)
    ELSE IF IsQuoteAt(s, i + 4) THEN MatchGroup(s, i, i + 5, FindAny(s, StopChars, i + 5))
    ELSE MatchGroup(s, i, i + 4, FindAny(s, StopChars, i + 4))

(***************************************************************************)
(* The parsed document: a sequence of elements [tag, attrs, string].       *)
(* attrs is a function from the names of the attributes the element has to *)
(* their values; string is the text of the element.                        *)
(***************************************************************************)
Elem(tag, attrs, string) == [tag |-> tag, attrs |-> attrs, string |-> string]

NoAttrs == [a \in {} |-> ""]

\* element.has_attr(attr)
has_attr(e, attr) == attr \in DOMAIN e.attrs

\* element[attr] = value
set_attr(e, attr, value) ==
    [e EXCEPT !.attrs = [a \in DOMAIN e.attrs \cup {attr} |->
                            IF a = attr THEN value ELSE e.attrs[a]]]

\* del element[attr]
del_attr(e, attr) ==
    [e EXCEPT !.attrs = [a \in DOMAIN e.attrs \ {attr} |-> e.attrs[a]]]

\* resource_selectors: (selector, attr); a selector is a tag and, when key is
\* not "", the condition [key="val"]
Selector(tag, key, val, attr) == [tag |-> tag, key |-> key, val |-> val, attr |-> attr]

resource_selectors ==
    << Selector("img", "", "", "src"),
       Selector("image", "", "", "src"),
       Selector("meta", "itemprop", "image", "content"),
       Selector("meta", "property", "og:image", "content"),
       Selector("meta", "name", "twitter:image", "content"),
       Selector("link", "", "", "href"),
       Selector("script", "", "", "src"),
       Selector("link", "rel", "icon", "href"),
       Selector("link", "rel", "shortcut icon", "href") >>

\* element is among soup.select(selector)
Selects(sel, e) ==
    /\ e.tag = sel.tag
    /\ sel.key # "" => (has_attr(e, sel.key) /\ e.attrs[sel.key] = sel.val)

(***************************************************************************)
(* downloaded_resources: a dict, kept in insertion order                   *)
(***************************************************************************)
CacheKeys(cache) == {cache[i].url : i \in DOMAIN cache}

\* url in downloaded_resources
InCache(cache, url) == url \in CacheKeys(cache)

\* downloaded_resources[url]
CacheGet(cache, url) == cache[CHOOSE i \in DOMAIN cache : cache[i].url = url].path

\* a cache that holds the last record only
CachePutAlone(cache, url, path) == <<[url |-> url, path |-> path]>>

\* downloaded_resources[url] = path
CachePut(cache, url, path) ==
    IF InCache(cache, url)
    THEN [i \in DOMAIN cache |-> IF cache[i].url = url THEN [url |-> url, path |-> path]
                                                      ELSE cache[i]]
    ELSE Append(cache, [url |-> url, path |-> path])

(***************************************************************************)
(* The inputs of a run: the command line, the configuration file, the      *)
(* input document and what the remote hosts serve.                         *)
(***************************************************************************)
\* the elements documents are made of
Pool ==
    << Elem("img", "src" :> "/logo.png", ""),
       Elem("image", "src" :> "/logo.png", ""),
       Elem("img", "src" :> "//cdn.example.com/a.png", ""),
       Elem("img", "src" :> "data:image/png;base64,AAAA", ""),
       Elem("img", "src" :> "", ""),
       Elem("link", ("rel" :> "stylesheet") @@ ("href" :> "https://example.com/css/site.css"), ""),
       Elem("link", ("rel" :> "icon") @@ ("href" :> "/favicon.ico"), ""),
       Elem("style", NoAttrs, "body{background:url('/logo.png')} a{fill:url(#g)}"),
       Elem("div", "style" :> "background:url(//cdn.example.com/a.png);fill:url(#g);mask:url(data:image/png;base64,AAAA)", ""),
       Elem("a", "ping" :> "https://t.co", "Go") >>

\* the document of the end-to-end scenario
EndToEndDoc ==
    << Elem("img", "src" :> "/logo.png", ""),
       Elem("a", ("href" :> "https://x.com") @@ ("ping" :> "https://t.co"), "Go"),
       Elem("script", "src" :> "a.js", "") >>

\* the most elements of Pool a drawn document holds
MaxElems == 2

RECURSIVE DocOf(_, _)
\* the elements of Pool with an index in S, in the order of Pool
DocOf(S, i) ==
    IF i > Len(Pool) THEN <<>>
    ELSE (IF i \in S THEN <<Pool[i]>> ELSE <<>>) \o DocOf(S, i + 1)

\* the documents of at most n elements of Pool
Docs(n) == {DocOf(S, 1) : S \in {T \in SUBSET (1..Len(Pool)) : Cardinality(T) <= n}}

\* the text a host serves for a stylesheet; any other resource is opaque bytes
StyleSheetText ==
    "body{background:url(/logo.png)} @font-face{src:url(\"fonts/f.woff2\")} i{fill:url(#g)}"

RemoteBody(url) == IF EndsWith(url, ".css") THEN StyleSheetText ELSE "bytes of " \o url

\* job descriptors of a configuration file
Job(i, o, l, b) ==
    ("input_filename" :> i) @@ ("output_filename" :> o)
    @@ ("link_replacement" :> l) @@ ("base_url" :> b)

JobPlain == Job("in.html", "out.html", "#", "https://example.com")

JobSubdir == Job("in.html", "site/out.html", "SearchResults.html", "http://example.com/x/y/")

JobMissingInput == Job("missing.html", "out2.html", "#", "https://example.com")

JobNoInputKey ==
    ("output_filename" :> "out3.html") @@ ("link_replacement" :> "#")
    @@ ("base_url" :> "https://example.com")

JobNoBaseKey ==
    ("input_filename" :> "in.html") @@ ("output_filename" :> "out4.html")
    @@ ("link_replacement" :> "#")

\* a base URL written without its scheme
JobNoScheme == Job("in.html", "out5.html", "#", "example.com")

Descriptors == {JobPlain, JobSubdir, JobMissingInput, JobNoInputKey, JobNoBaseKey}

\* the most job descriptors a configuration file holds
MaxJobs == 2

RECURSIVE SeqsUpTo(_, _)
\* the sequences over S of length at most n
SeqsUpTo(S, n) ==
    IF n = 0 THEN {<<>>}
    ELSE LET shorter == SeqsUpTo(S, n - 1)
         IN  shorter \cup {Append(q, x) : q \in shorter, x \in S}

\* what load_config finds: no file, a file that is not JSON, or a job list
ConfigMissing == [status |-> "missing", jobs |-> <<>>]

ConfigInvalid == [status |-> "invalid", jobs |-> <<>>]

ConfigOf(jobs) == [status |-> "json", jobs |-> jobs]

Configs == {ConfigMissing, ConfigInvalid} \cup {ConfigOf(q) : q \in SeqsUpTo(Descriptors, MaxJobs)}

\* argparse: the value of an option that was not given
None == "None"

\* parse_arguments(): --link-replacement and --base-url at their defaults
Args(i, o) ==
    [input |-> i, output |-> o, link_replacement |-> "#",
     base_url |-> "https://www.google.com", config |-> "demoizer_settings.json"]

\* the inputs of a run: every drawn document under one job of each kind of
\* base URL and output layout, and the end-to-end document under every
\* configuration and every combination of --input and --output
Inputs ==
    {[args |-> Args(None, None), config |-> ConfigOf(<<j>>), doc |-> d] :
        j \in {JobPlain, JobSubdir, JobNoScheme}, d \in Docs(MaxElems)}
    \cup {[args |-> Args(None, None), config |-> c, doc |-> EndToEndDoc] : c \in Configs}
    \cup {[args |-> Args(i, o), config |-> c, doc |-> EndToEndDoc] :
            i \in {None, "in.html"}, o \in {None, "out.html"}, c \in {ConfigMissing, ConfigOf(<<JobPlain>>)}}

(***************************************************************************)
(* The state of a run                                                      *)
(***************************************************************************)
VARIABLES
    args,                 \* the parsed command line
    config,               \* the configuration file: missing, not JSON, or a job list
    fs,                   \* the files: absolute path -> content
    dirs,                 \* the directories that exist
    files_to_process,     \* the job list of the run
    pc,                   \* where the program is
    exit_status,          \* the exit status, -1 while the program runs
    job,                  \* the index of file_config in files_to_process
    soup,                 \* the parsed document of the job
    downloaded_resources, \* the cache of the job
    sel,                  \* the index of (selector, attr) in resource_selectors
    elt,                  \* the index in soup of the element of the current loop
    css_files,            \* the stylesheet paths the external-CSS pass walks
    css_i,                \* the index of css_file in css_files
    css_content,          \* the text the current CSS loop rewrites
    css_urls,             \* the url(...) arguments found in that text
    k,                    \* the index of css_url in css_urls
    reported,             \* the count printed by 'Downloaded N resources', per job
    log                   \* what the run did, in order: GETs, writes, sleeps, prints

vars == <<args, config, fs, dirs, files_to_process, pc, exit_status, job, soup,
          downloaded_resources, sel, elt, css_files, css_i, css_content, css_urls, k,
          reported, log>>

Event(op, arg, ok) == [op |-> op, arg |-> arg, ok |-> ok]

Printed(msg) == Event("print", msg, TRUE)

\* the absolute, normalized path of p
AbsStr(p) == "/" \o Join(abspath(p), "/")

\* the most fetches of a run that fail
MaxFailures == 1

Failures == Cardinality({i \in DOMAIN log : log[i].op = "GET" /\ ~log[i].ok})

\* the outcomes a fetch can have here
FetchOutcomes == IF Failures < MaxFailures THEN {TRUE, FALSE} ELSE {TRUE}

resources_dir == "resources"

Init ==
    \E inp \in Inputs :
        /\ args = inp.args
        /\ config = inp.config
        /\ fs = (AbsStr("in.html") :> inp.doc)
        /\ dirs = {AbsStr(""), AbsStr("site")}
        /\ files_to_process = <<>>
        /\ pc = "start"
        /\ exit_status = -1
        /\ job = 0
        /\ soup = <<>>
        /\ downloaded_resources = <<>>
        /\ sel = 0
        /\ elt = 0
        /\ css_files = <<>>
        /\ css_i = 0
        /\ css_content = ""
        /\ css_urls = <<>>
        /\ k = 0
        /\ reported = <<>>
        /\ log = <<>>

JobLocals == <<soup, downloaded_resources, sel, elt, css_files, css_i, css_content, css_urls, k>>

\* the locals of process_html_file are gone when it returns or raises
DropLocals ==
    /\ soup' = <<>>
    /\ downloaded_resources' = <<>>
    /\ sel' = 0
    /\ elt' = 0
    /\ css_files' = <<>>
    /\ css_i' = 0
    /\ css_content' = ""
    /\ css_urls' = <<>>
    /\ k' = 0

(***************************************************************************)
(* Start-up: get_files_to_process and the check that follows it            *)
(***************************************************************************)
\* a value argparse gave and Python takes as true
Truthy(v) == v # None /\ v # ""

\* a load_config that falls back to a built-in job when the file is missing
load_config_default(c) ==
    IF c.status = "missing" THEN <<JobPlain>>
    ELSE IF c.status = "invalid" THEN <<>> ELSE c.jobs

load_config(c) == IF c.status \in {"missing", "invalid"} THEN <<>> ELSE c.jobs

GetFilesToProcess ==
    /\ pc = "start"
    /\ IF Truthy(args.input) /\ Truthy(args.output)
       THEN /\ files_to_process' = <<Job(args.input, args.output,
                                         args.link_replacement, args.base_url)>>
            /\ pc' = "check"
            /\ UNCHANGED <<exit_status, log>>
       ELSE IF Truthy(args.input) \/ Truthy(args.output)
       THEN /\ log' = Append(log, Printed("Error: Both --input and --output must be specified"))
            /\ pc' = "exited"
            /\ exit_status' = 1
            /\ UNCHANGED files_to_process
       ELSE /\ files_to_process' = load_config(config)
            /\ log' = IF config.status = "missing"
                      THEN Append(log, Printed("Error: Configuration file not found"))
                      ELSE IF config.status = "invalid"
                      THEN Append(log, Printed("Error: Invalid JSON in configuration file"))
                      ELSE log
            /\ pc' = "check"
            /\ UNCHANGED exit_status
    /\ UNCHANGED <<args, config, fs, dirs, job, reported, JobLocals>>

ExitNoConfig ==
    /\ pc = "check"
    /\ files_to_process = <<>>
    /\ log' = Append(log, Printed("No valid configuration found. Exiting."))
    /\ pc' = "exited"
    /\ exit_status' = 1
    /\ UNCHANGED <<args, config, fs, dirs, files_to_process, job, reported, JobLocals>>

EnterLoop ==
    /\ pc = "check"
    /\ files_to_process # <<>>
    /\ pc' = "loop"
    /\ job' = 1
    /\ UNCHANGED <<args, config, fs, dirs, files_to_process, exit_status, reported, log, JobLocals>>

(***************************************************************************)
(* The job loop                                                            *)
(***************************************************************************)
file_config == files_to_process[job]

JobKeys == <<"input_filename", "output_filename", "link_replacement", "base_url">>

input_file == file_config["input_filename"]

output_file == file_config["output_filename"]

link_replacement == file_config["link_replacement"]

base_url == file_config["base_url"]

\* the call of process_html_file: its arguments are read from the descriptor,
\* and a key that is missing raises KeyError inside the try
CallProcess ==
    /\ pc = "loop"
    /\ job <= Len(files_to_process)
    /\ IF \A i \in DOMAIN JobKeys : JobKeys[i] \in DOMAIN file_config
       THEN /\ pc' = "open"
            /\ log' = Append(log, Printed("Processing"))
       ELSE /\ pc' = "except_exception"
            /\ UNCHANGED log
    /\ UNCHANGED <<args, config, fs, dirs, files_to_process, exit_status, job, reported, JobLocals>>

AllProcessed ==
    /\ pc = "loop"
    /\ job > Len(files_to_process)
    /\ log' = Append(log, Printed("All files processed!"))
    /\ pc' = "exited"
    /\ exit_status' = 0
    /\ UNCHANGED <<args, config, fs, dirs, files_to_process, job, reported, JobLocals>>

\* except FileNotFoundError
HandleFileNotFound ==
    /\ pc = "except_file_not_found"
    /\ log' = Append(log, Printed("Warning: Input file not found, skipping..."))
    /\ pc' = "loop"
    /\ job' = job + 1
    /\ DropLocals
    /\ UNCHANGED <<args, config, fs, dirs, files_to_process, exit_status, reported>>

\* except Exception: the message reads file_config['input_filename'], and a
\* KeyError raised by the handler itself ends the program with a traceback
HandleException ==
    /\ pc = "except_exception"
    /\ IF "input_filename" \in DOMAIN file_config
       THEN /\ log' = Append(log, Printed("Error processing"))
            /\ pc' = "loop"
            /\ job' = job + 1
            /\ UNCHANGED exit_status
       ELSE /\ log' = Append(log, Event("traceback", "KeyError", TRUE))
            /\ pc' = "exited"
            /\ exit_status' = 1
            /\ UNCHANGED job
    /\ DropLocals
    /\ UNCHANGED <<args, config, fs, dirs, files_to_process, reported>>

(***************************************************************************)
(* process_html_file: what its passes share                                *)
(***************************************************************************)
\* open(path, 'w').write(content)
WriteFile(f, path, content) ==
    [q \in DOMAIN f \cup {AbsStr(path)} |-> IF q = AbsStr(path) THEN content ELSE f[q]]

HttpPrefixes == {"http://", "https://"}

\* a download_resource without raise_for_status(): whatever the GET ends as,
\* the body is saved and True returned
download_resource_unchecked(url, local_path, ok) ==
    LET target == IF StartsWith(url, "//") THEN "https:" \o url ELSE url
    IN  IF ~StartsWith(url, "//") /\ ~StartsWithAny(url, HttpPrefixes)
        THEN [ret |-> FALSE, fs |-> fs, dirs |-> dirs, log |-> log]
        ELSE [ret |-> TRUE,
              fs |-> WriteFile(fs, local_path, RemoteBody(target)),
              dirs |-> dirs \cup {AbsStr(dirname(local_path))},
              log |-> log \o <<Event("GET", target, ok),
                               Event("save", AbsStr(local_path), TRUE)>>]

\* download_resource(url, local_path, session) when the GET ends as ok says:
\* what it returns and what it leaves behind
download_resource(url, local_path, ok) ==
    LET target == IF StartsWith(url, "//") THEN "https:" \o url ELSE url
    IN  IF ~StartsWith(url, "//") /\ ~StartsWithAny(url, HttpPrefixes)
        THEN [ret |-> FALSE, fs |-> fs, dirs |-> dirs, log |-> log]
        ELSE IF ~ok
        THEN [ret |-> FALSE, fs |-> fs, dirs |-> dirs,
              log |-> Append(log, Event("GET", target, FALSE))]
        ELSE [ret |-> TRUE,
              fs |-> WriteFile(fs, local_path, RemoteBody(target)),
              dirs |-> dirs \cup {AbsStr(dirname(local_path))},
              log |-> log \o <<Event("GET", target, TRUE),
                               Event("save", AbsStr(local_path), TRUE)>>]

\* os.path.relpath(local_path, os.path.dirname(output_file)).replace('\\', '/')
relative_path_of(local_path, out) == Replace(relpath(local_path, dirname(out)), "\\", "/")

\* a delay of no length
SleptNotAtAll == Event("sleep", "0", TRUE)

\* time.sleep(0.1)
Slept == Event("sleep", "0.1", TRUE)

\* the url(...) argument made absolute, as the three CSS passes do it
resolve_css_url(base, css_url) ==
    IF StartsWith(css_url, "//") THEN "https:" \o css_url
    ELSE IF StartsWith(css_url, "/") THEN urljoin(base, css_url)
    ELSE IF ~StartsWithAny(css_url, HttpPrefixes) THEN urljoin(base, css_url)
    ELSE css_url

\* the least index of found after i, Len(sp) + 1 when none: the next element
\* of a find_all
NextIndex(sp, i, found) ==
    LET later == {j \in found : j > i}
    IN  IF later = {} THEN Len(sp) + 1 ELSE CHOOSE j \in later : \A j2 \in later : j <= j2

(***************************************************************************)
(* process_html_file: reading the input                                    *)
(***************************************************************************)
AttrMatch(sp, s, i) ==
    /\ Selects(resource_selectors[s], sp[i])
    /\ has_attr(sp[i], resource_selectors[s].attr)

Before(p, q) == p[1] < q[1] \/ (p[1] = q[1] /\ p[2] < q[2])

\* the next (selector, element) after p whose element has the attribute:
\* the loops of the attribute pass, without the iterations that do nothing
NextAttr(sp, p) ==
    LET later == {q \in (DOMAIN resource_selectors) \X (DOMAIN sp) :
                    AttrMatch(sp, q[1], q[2]) /\ Before(p, q)}
    IN  IF later = {} THEN <<Len(resource_selectors) + 1, 0>>
        ELSE CHOOSE q \in later : \A r \in later : r = q \/ Before(q, r)

\* a cache that still holds what an earlier job recorded
StaleCache == <<[url |-> "https://example.com/logo.png", path |-> "resources/logo_stale.png"]>>

\* downloaded_resources = {}
EmptyCache == <<>>

OpenInput ==
    /\ pc = "open"
    /\ dirs' = dirs \cup {AbsStr(resources_dir)}
    /\ IF AbsStr(input_file) \in DOMAIN fs
       THEN /\ soup' = fs[AbsStr(input_file)]
            /\ downloaded_resources' = EmptyCache
            /\ log' = Append(log, Printed("Downloading external resources..."))
            /\ sel' = NextAttr(soup', <<0, 0>>)[1]
            /\ elt' = NextAttr(soup', <<0, 0>>)[2]
            /\ pc' = "attrs"
       ELSE /\ pc' = "except_file_not_found"
            /\ UNCHANGED <<soup, downloaded_resources, sel, elt, log>>
    /\ UNCHANGED <<args, config, fs, files_to_process, exit_status, job, css_files, css_i,
                   css_content, css_urls, k, reported>>

(***************************************************************************)
(* The attribute pass                                                      *)
(***************************************************************************)
SkipPrefixes == {"data:", "javascript:", "mailto:", "tel:", "#"}

\* 'Convert relative URLs to absolute URLs'
resolve_attr_url(base, url) ==
    IF StartsWith(url, "/") THEN urljoin(base, url)
    ELSE IF ~StartsWithAny(url, HttpPrefixes \cup {"//"}) THEN urljoin(base, url)
    ELSE url

InAttrPass == pc = "attrs" /\ sel <= Len(resource_selectors)

attr == resource_selectors[sel].attr

attr_raw == soup[elt].attrs[attr]

attr_url == resolve_attr_url(base_url, attr_raw)

AttrAdvance ==
    /\ sel' = NextAttr(soup', <<sel, elt>>)[1]
    /\ elt' = NextAttr(soup', <<sel, elt>>)[2]

\* the two 'continue' of a skipped value
AttrSkip ==
    /\ InAttrPass
    /\ \/ StartsWithAny(attr_raw, SkipPrefixes)
       \/ ~StartsWithAny(attr_url, HttpPrefixes \cup {"//"})
    /\ UNCHANGED soup
    /\ AttrAdvance
    /\ UNCHANGED <<args, config, fs, dirs, files_to_process, pc, exit_status, job,
                   downloaded_resources, css_files, css_i, css_content, css_urls, k,
                   reported, log>>

AttrCacheHit ==
    /\ InAttrPass
    /\ ~StartsWithAny(attr_raw, SkipPrefixes)
    /\ StartsWithAny(attr_url, HttpPrefixes \cup {"//"})
    /\ InCache(downloaded_resources, attr_url)
    /\ soup' = [soup EXCEPT ![elt] = set_attr(@, attr, CacheGet(downloaded_resources, attr_url))]
    /\ AttrAdvance
    /\ UNCHANGED <<args, config, fs, dirs, files_to_process, pc, exit_status, job,
                   downloaded_resources, css_files, css_i, css_content, css_urls, k,
                   reported, log>>

AttrDownload ==
    /\ InAttrPass
    /\ ~StartsWithAny(attr_raw, SkipPrefixes)
    /\ StartsWithAny(attr_url, HttpPrefixes \cup {"//"})
    /\ ~InCache(downloaded_resources, attr_url)
    /\ \E ok \in FetchOutcomes :
        LET local_path    == create_local_filename(attr_url, resources_dir)
            d             == download_resource(attr_url, local_path, ok)
            relative_path == relative_path_of(local_path, output_file)
        IN  /\ fs' = d.fs
            /\ dirs' = d.dirs
            /\ IF d.ret
               THEN /\ soup' = [soup EXCEPT ![elt] = set_attr(@, attr, relative_path)]
                    /\ downloaded_resources' =
                           CachePut(downloaded_resources, attr_url, relative_path)
                    /\ log' = Append(d.log, Slept)
               ELSE /\ UNCHANGED <<soup, downloaded_resources>>
                    /\ log' = d.log
    /\ AttrAdvance
    /\ UNCHANGED <<args, config, files_to_process, pc, exit_status, job, css_files, css_i,
                   css_content, css_urls, k, reported>>

\* [path for url, path in downloaded_resources.items() if path.endswith('.css')]
css_paths(cache) ==
    LET IsCss(entry) == EndsWith(entry.path, ".css")
        kept == SelectSeq(cache, IsCss)
    IN  [i \in DOMAIN kept |-> kept[i].path]

AttrDone ==
    /\ pc = "attrs"
    /\ sel > Len(resource_selectors)
    /\ pc' = "css"
    /\ log' = Append(log, Printed("Processing CSS files for embedded resources..."))
    /\ css_files' = css_paths(downloaded_resources)
    /\ css_i' = 1
    /\ sel' = 0
    /\ elt' = 0
    /\ UNCHANGED <<args, config, fs, dirs, files_to_process, exit_status, job, soup,
                   downloaded_resources, css_content, css_urls, k, reported>>

(***************************************************************************)
(* The external-CSS pass                                                   *)
(***************************************************************************)
css_file == css_files[css_i]

css_raw == css_urls[k]

css_url == resolve_css_url(base_url, css_raw)

\* open(css_file) and the findall; an exception is caught by the pass and the
\* file is left as it is
CssOpen ==
    /\ pc = "css"
    /\ css_i <= Len(css_files)
    /\ IF AbsStr(css_file) \in DOMAIN fs
       THEN /\ css_content' = fs[AbsStr(css_file)]
            /\ css_urls' = findall_css_urls(css_content', 1)
            /\ k' = 1
            /\ pc' = "css_urls"
            /\ UNCHANGED <<css_i, log>>
       ELSE /\ log' = Append(log, Printed("Error processing CSS file"))
            /\ css_i' = css_i + 1
            /\ UNCHANGED <<css_content, css_urls, k, pc>>
    /\ UNCHANGED <<args, config, fs, dirs, files_to_process, exit_status, job, soup,
                   downloaded_resources, sel, elt, css_files, reported>>

\* the condition of the external-CSS and <style> passes to fetch
CssWanted(cache, url) == StartsWithAny(url, HttpPrefixes) /\ ~InCache(cache, url)

CssUrlSkip ==
    /\ pc = "css_urls"
    /\ k <= Len(css_urls)
    /\ ~CssWanted(downloaded_resources, css_url)
    /\ k' = k + 1
    /\ UNCHANGED <<args, config, fs, dirs, files_to_process, pc, exit_status, job, soup,
                   downloaded_resources, sel, elt, css_files, css_i, css_content, css_urls,
                   reported, log>>

CssUrlDownload ==
    /\ pc = "css_urls"
    /\ k <= Len(css_urls)
    /\ CssWanted(downloaded_resources, css_url)
    /\ \E ok \in FetchOutcomes :
        LET local_path    == create_local_filename(css_url, resources_dir)
            d             == download_resource(css_url, local_path, ok)
            relative_path == relative_path_of(local_path, output_file)
        IN  /\ fs' = d.fs
            /\ dirs' = d.dirs
            /\ IF d.ret
               THEN /\ css_content' = Replace(css_content, css_url, relative_path)
                    /\ downloaded_resources' =
                           CachePut(downloaded_resources, css_url, relative_path)
                    /\ log' = Append(d.log, Slept)
               ELSE /\ UNCHANGED <<css_content, downloaded_resources>>
                    /\ log' = d.log
    /\ k' = k + 1
    /\ UNCHANGED <<args, config, files_to_process, pc, exit_status, job, soup, sel, elt,
                   css_files, css_i, css_urls, reported>>

\* 'Write updated CSS back'
CssWrite ==
    /\ pc = "css_urls"
    /\ k > Len(css_urls)
    /\ fs' = WriteFile(fs, css_file, css_content)
    /\ log' = Append(log, Event("rewrite", AbsStr(css_file), TRUE))
    /\ css_i' = css_i + 1
    /\ css_content' = ""
    /\ css_urls' = <<>>
    /\ k' = 0
    /\ pc' = "css"
    /\ UNCHANGED <<args, config, dirs, files_to_process, exit_status, job, soup,
                   downloaded_resources, sel, elt, css_files, reported>>

IsStyleTag(e) == e.tag = "style" /\ e.string # ""

\* soup.find_all('style'), the tags with a string
StyleTags(sp) == {j \in DOMAIN sp : IsStyleTag(sp[j])}

CssDone ==
    /\ pc = "css"
    /\ css_i > Len(css_files)
    /\ pc' = "style"
    /\ log' = Append(log, Printed("Processing inline CSS for embedded resources..."))
    /\ css_files' = <<>>
    /\ css_i' = 0
    /\ elt' = NextIndex(soup, 0, StyleTags(soup))
    /\ UNCHANGED <<args, config, fs, dirs, files_to_process, exit_status, job, soup,
                   downloaded_resources, sel, css_content, css_urls, k, reported>>

(***************************************************************************)
(* The inline <style> pass                                                 *)
(***************************************************************************)
StyleOpen ==
    /\ pc = "style"
    /\ elt <= Len(soup)
    /\ css_content' = soup[elt].string
    /\ css_urls' = findall_css_urls(css_content', 1)
    /\ k' = 1
    /\ pc' = "style_urls"
    /\ UNCHANGED <<args, config, fs, dirs, files_to_process, exit_status, job, soup,
                   downloaded_resources, sel, elt, css_files, css_i, reported, log>>

StyleUrlSkip ==
    /\ pc = "style_urls"
    /\ k <= Len(css_urls)
    /\ ~CssWanted(downloaded_resources, css_url)
    /\ k' = k + 1
    /\ UNCHANGED <<args, config, fs, dirs, files_to_process, pc, exit_status, job, soup,
                   downloaded_resources, sel, elt, css_files, css_i, css_content, css_urls,
                   reported, log>>

StyleUrlDownload ==
    /\ pc = "style_urls"
    /\ k <= Len(css_urls)
    /\ CssWanted(downloaded_resources, css_url)
    /\ \E ok \in FetchOutcomes :
        LET local_path    == create_local_filename(css_url, resources_dir)
            d             == download_resource(css_url, local_path, ok)
            relative_path == relative_path_of(local_path, output_file)
        IN  /\ fs' = d.fs
            /\ dirs' = d.dirs
            /\ IF d.ret
               THEN /\ css_content' = Replace(css_content, css_raw, relative_path)
                    /\ downloaded_resources' =
                           CachePut(downloaded_resources, css_url, relative_path)
                    /\ log' = Append(d.log, Slept)
               ELSE /\ UNCHANGED <<css_content, downloaded_resources>>
                    /\ log' = d.log
    /\ k' = k + 1
    /\ UNCHANGED <<args, config, files_to_process, pc, exit_status, job, soup, sel, elt,
                   css_files, css_i, css_urls, reported>>

\* style_tag.string = css_content
StyleClose ==
    /\ pc = "style_urls"
    /\ k > Len(css_urls)
    /\ soup' = [soup EXCEPT ![elt].string = css_content]
    /\ elt' = NextIndex(soup, elt, StyleTags(soup))
    /\ css_content' = ""
    /\ css_urls' = <<>>
    /\ k' = 0
    /\ pc' = "style"
    /\ UNCHANGED <<args, config, fs, dirs, files_to_process, exit_status, job,
                   downloaded_resources, sel, css_files, css_i, reported, log>>

\* an element of find_all(attrs={"style": True}) whose style holds "url("
HasStyleUrl(e) == has_attr(e, "style") /\ Contains(e.attrs["style"], "url(")

StyleUrlElements(sp) == {j \in DOMAIN sp : HasStyleUrl(sp[j])}

StyleDone ==
    /\ pc = "style"
    /\ elt > Len(soup)
    /\ pc' = "style_attr"
    /\ log' = Append(log, Printed("Processing inline style attributes for background images..."))
    /\ elt' = NextIndex(soup, 0, StyleUrlElements(soup))
    /\ UNCHANGED <<args, config, fs, dirs, files_to_process, exit_status, job, soup,
                   downloaded_resources, sel, css_files, css_i, css_content, css_urls, k,
                   reported>>

(***************************************************************************)
(* The inline style-attribute pass                                         *)
(***************************************************************************)
StyleAttrOpen ==
    /\ pc = "style_attr"
    /\ elt <= Len(soup)
    /\ css_content' = soup[elt].attrs["style"]
    /\ css_urls' = findall_css_urls(css_content', 1)
    /\ k' = 1
    /\ pc' = "style_attr_urls"
    /\ UNCHANGED <<args, config, fs, dirs, files_to_process, exit_status, job, soup,
                   downloaded_resources, sel, elt, css_files, css_i, reported, log>>

StyleAttrCacheHit ==
    /\ pc = "style_attr_urls"
    /\ k <= Len(css_urls)
    /\ InCache(downloaded_resources, css_url)
    /\ css_content' = Replace(css_content, css_raw, CacheGet(downloaded_resources, css_url))
    /\ k' = k + 1
    /\ UNCHANGED <<args, config, fs, dirs, files_to_process, pc, exit_status, job, soup,
                   downloaded_resources, sel, elt, css_files, css_i, css_urls, reported, log>>

StyleAttrSkip ==
    /\ pc = "style_attr_urls"
    /\ k <= Len(css_urls)
    /\ ~InCache(downloaded_resources, css_url)
    /\ ~StartsWithAny(css_url, HttpPrefixes)
    /\ k' = k + 1
    /\ UNCHANGED <<args, config, fs, dirs, files_to_process, pc, exit_status, job, soup,
                   downloaded_resources, sel, elt, css_files, css_i, css_content, css_urls,
                   reported, log>>

StyleAttrDownload ==
    /\ pc = "style_attr_urls"
    /\ k <= Len(css_urls)
    /\ ~InCache(downloaded_resources, css_url)
    /\ StartsWithAny(css_url, HttpPrefixes)
    /\ \E ok \in FetchOutcomes :
        LET local_path    == create_local_filename(css_url, resources_dir)
            d             == download_resource(css_url, local_path, ok)
            relative_path == relative_path_of(local_path, output_file)
        IN  /\ fs' = d.fs
            /\ dirs' = d.dirs
            /\ IF d.ret
               THEN /\ css_content' = Replace(css_content, css_raw, relative_path)
                    /\ downloaded_resources' =
                           CachePut(downloaded_resources, css_url, relative_path)
                    /\ log' = Append(d.log, Slept)
               ELSE /\ UNCHANGED <<css_content, downloaded_resources>>
                    /\ log' = d.log
    /\ k' = k + 1
    /\ UNCHANGED <<args, config, files_to_process, pc, exit_status, job, soup, sel, elt,
                   css_files, css_i, css_urls, reported>>

\* element["style"] = style_content
StyleAttrClose ==
    /\ pc = "style_attr_urls"
    /\ k > Len(css_urls)
    /\ soup' = [soup EXCEPT ![elt] = set_attr(@, "style", css_content)]
    /\ elt' = NextIndex(soup, elt, StyleUrlElements(soup))
    /\ css_content' = ""
    /\ css_urls' = <<>>
    /\ k' = 0
    /\ pc' = "style_attr"
    /\ UNCHANGED <<args, config, fs, dirs, files_to_process, exit_status, job,
                   downloaded_resources, sel, css_files, css_i, reported, log>>

StyleAttrDone ==
    /\ pc = "style_attr"
    /\ elt > Len(soup)
    /\ pc' = "sanitize"
    /\ elt' = 0
    /\ UNCHANGED <<args, config, fs, dirs, files_to_process, exit_status, job, soup,
                   downloaded_resources, sel, css_files, css_i, css_content, css_urls, k,
                   reported, log>>

(***************************************************************************)
(* The sanitizer, the write of the output and the end of the job           *)
(***************************************************************************)
\* a sanitizer that leaves the script elements in
remove_scripts_none(sp) == sp

\* for script in soup.find_all("script"): script.decompose()
remove_scripts(sp) ==
    LET Kept(e) == e.tag # "script"
    IN  SelectSeq(sp, Kept)

\* a sanitizer that replaces the href of a link and leaves its ping
replace_links_keep_ping(sp, replacement) ==
    [i \in DOMAIN sp |->
        IF sp[i].tag = "a" /\ has_attr(sp[i], "href")
        THEN set_attr(sp[i], "href", replacement)
        ELSE sp[i]]

\* a sanitizer that treats every anchor as a link, with an href or without
replace_links_every_anchor(sp, replacement) ==
    [i \in DOMAIN sp |->
        IF sp[i].tag = "a"
        THEN del_attr(set_attr(sp[i], "href", replacement), "ping")
        ELSE sp[i]]

\* for link in soup.find_all("a", href=True): the href is replaced and ping deleted
replace_links(sp, replacement) ==
    [i \in DOMAIN sp |->
        IF sp[i].tag = "a" /\ has_attr(sp[i], "href")
        THEN LET linked == set_attr(sp[i], "href", replacement)
             IN  IF has_attr(linked, "ping") THEN del_attr(linked, "ping") ELSE linked
        ELSE sp[i]]

Sanitize ==
    /\ pc = "sanitize"
    /\ soup' = replace_links(remove_scripts(soup), link_replacement)
    /\ pc' = "write"
    /\ UNCHANGED <<args, config, fs, dirs, files_to_process, exit_status, job,
                   downloaded_resources, sel, elt, css_files, css_i, css_content, css_urls, k,
                   reported, log>>

\* open(output_file, "w") needs the directory of the file to exist
WriteOutput ==
    /\ pc = "write"
    /\ IF AbsStr(dirname(output_file)) \in dirs
       THEN /\ fs' = WriteFile(fs, output_file, soup)
            /\ log' = Append(log, Event("output", AbsStr(output_file), TRUE))
            /\ pc' = "finish"
       ELSE /\ pc' = "except_file_not_found"
            /\ UNCHANGED <<fs, log>>
    /\ UNCHANGED <<args, config, dirs, files_to_process, exit_status, job, reported, JobLocals>>

\* session.close() and the two prints; the function returns
FinishJob ==
    /\ pc = "finish"
    /\ log' = Append(log, Printed("Completed processing"))
    /\ reported' = Append(reported, Len(downloaded_resources))
    /\ pc' = "loop"
    /\ job' = job + 1
    /\ DropLocals
    /\ UNCHANGED <<args, config, fs, dirs, files_to_process, exit_status>>

Next ==
    \/ GetFilesToProcess
    \/ ExitNoConfig
    \/ EnterLoop
    \/ CallProcess
    \/ AllProcessed
    \/ HandleFileNotFound
    \/ HandleException
    \/ OpenInput
    \/ AttrSkip
    \/ AttrCacheHit
    \/ AttrDownload
    \/ AttrDone
    \/ CssOpen
    \/ CssUrlSkip
    \/ CssUrlDownload
    \/ CssWrite
    \/ CssDone
    \/ StyleOpen
    \/ StyleUrlSkip
    \/ StyleUrlDownload
    \/ StyleClose
    \/ StyleDone
    \/ StyleAttrOpen
    \/ StyleAttrCacheHit
    \/ StyleAttrSkip
    \/ StyleAttrDownload
    \/ StyleAttrClose
    \/ StyleAttrDone
    \/ Sanitize
    \/ WriteOutput
    \/ FinishJob

Spec == Init /\ [][Next]_vars

(***************************************************************************)
(* What a job did: the events of the run since the job's 'Processing' line *)
(***************************************************************************)
JobStart ==
    LET starts == {i \in DOMAIN log : log[i] = Printed("Processing")}
    IN  IF starts = {} THEN 0 ELSE CHOOSE i \in starts : \A j \in starts : j <= i

JobLog == SubSeq(log, JobStart + 1, Len(log))

\* the events a step adds to the log
NewEvents == IF Len(log') > Len(log) THEN SubSeq(log', Len(log) + 1, Len(log')) ELSE <<>>

Occurs(events, op) == \E i \in DOMAIN events : events[i].op = op

FailedGet(events) == \E i \in DOMAIN events : events[i].op = "GET" /\ ~events[i].ok

\* the attribute pass is at a value it neither skips nor drops
AtAttrReference ==
    /\ InAttrPass
    /\ ~StartsWithAny(attr_raw, SkipPrefixes)
    /\ StartsWithAny(attr_url, HttpPrefixes \cup {"//"})

\* one of the three CSS passes is at a url(...) argument
AtCssReference == pc \in {"css_urls", "style_urls", "style_attr_urls"} /\ k <= Len(css_urls)

\* the document the job wrote
OutputDoc == fs[AbsStr(output_file)]

(***************************************************************************)
(* C1                                                                      *)
(***************************************************************************)
\* C1: within one job no URL is requested by a GET twice and no file is
\* saved twice, whatever the references to it look like
C1_FetchedAtMostOnce ==
    \A i, j \in DOMAIN JobLog :
        (i < j /\ JobLog[i].op \in {"GET", "save"})
            => ~(JobLog[j].op = JobLog[i].op /\ JobLog[j].arg = JobLog[i].arg)

(***************************************************************************)
(* C2                                                                      *)
(***************************************************************************)
\* C2: in each of the four passes, the step at a reference that resolves to a
\* URL of the cache replaces the reference by the cached relative path
C2_CacheHitReplaced ==
    [][ /\ (AtAttrReference /\ InCache(downloaded_resources, attr_url))
            => soup'[elt].attrs[attr] = CacheGet(downloaded_resources, attr_url)
        /\ (AtCssReference /\ InCache(downloaded_resources, css_url))
            => css_content' = Replace(css_content, css_raw,
                                      CacheGet(downloaded_resources, css_url)) ]_vars

(***************************************************************************)
(* C3                                                                      *)
(***************************************************************************)
\* C3: in every pass, the step at a reference that starts with data:,
\* javascript:, mailto:, tel: or # issues no GET and records nothing in the cache
C3_SkippedNeverFetched ==
    [][ (\/ InAttrPass /\ StartsWithAny(attr_raw, SkipPrefixes)
         \/ AtCssReference /\ StartsWithAny(css_raw, SkipPrefixes))
            => (log' = log /\ downloaded_resources' = downloaded_resources) ]_vars

(***************************************************************************)
(* C4                                                                      *)
(***************************************************************************)
\* C4: a step whose GET fails leaves the document, the CSS text and the
\* cache as they are, and stays in its pass at the next reference
C4_FailedFetchLeavesReference ==
    [][ FailedGet(NewEvents)
            => /\ soup' = soup
               /\ css_content' = css_content
               /\ downloaded_resources' = downloaded_resources
               /\ pc' = pc
               /\ IF pc = "attrs" THEN <<sel', elt'>> = NextAttr(soup, <<sel, elt>>)
                                  ELSE k' = k + 1 ]_vars

\* a job wrote its output although a GET of it failed, and a later reference
\* of the job was fetched
C4_Witness ==
    /\ pc = "finish"
    /\ \E i, j \in DOMAIN JobLog :
        /\ i < j
        /\ JobLog[i].op = "GET" /\ ~JobLog[i].ok
        /\ JobLog[j].op = "GET" /\ JobLog[j].ok
    /\ Occurs(JobLog, "output")

(***************************************************************************)
(* C5                                                                      *)
(***************************************************************************)
\* C5: the document a job wrote holds no script element, every anchor with an
\* href has the link replacement as its href, and no anchor has a ping
C5_OutputSanitized ==
    pc = "finish" =>
        \A i \in DOMAIN OutputDoc :
            /\ OutputDoc[i].tag # "script"
            /\ OutputDoc[i].tag = "a" =>
                /\ has_attr(OutputDoc[i], "href") => OutputDoc[i].attrs["href"] = link_replacement
                /\ ~has_attr(OutputDoc[i], "ping")

(***************************************************************************)
(* C6                                                                      *)
(***************************************************************************)
\* C6: a run that started on a job list ends with every job attempted and
\* 'All files processed!' as its last line
C6_RunReachesEnd ==
    (pc = "exited" /\ files_to_process # <<>>)
        => /\ exit_status = 0
           /\ job > Len(files_to_process)
           /\ log[Len(log)] = Printed("All files processed!")

(***************************************************************************)
(* C7                                                                      *)
(***************************************************************************)
OutputPaths ==
    {AbsStr(files_to_process[i]["output_filename"]) :
        i \in {j \in DOMAIN files_to_process : "output_filename" \in DOMAIN files_to_process[j]}}

FileAt(f, path) == IF path \in DOMAIN f THEN <<f[path]>> ELSE <<>>

\* a step writes an output file of the run
OutputTouched ==
    \/ \E path \in OutputPaths : FileAt(fs', path) # FileAt(fs, path)
    \/ Occurs(NewEvents, "output")

PhaseLines ==
    << "Downloading external resources...",
       "Processing CSS files for embedded resources...",
       "Processing inline CSS for embedded resources...",
       "Processing inline style attributes for background images..." >>

\* the four passes of the job have begun, in order, each once
PassesBegun ==
    LET IsPhase(e) == e.op = "print" /\ \E i \in DOMAIN PhaseLines : e.arg = PhaseLines[i]
        begun == SelectSeq(JobLog, IsPhase)
    IN  [i \in DOMAIN begun |-> begun[i].arg] = PhaseLines

\* nothing is left for the sanitizer to do
Sanitized(sp, replacement) ==
    \A i \in DOMAIN sp :
        /\ sp[i].tag # "script"
        /\ (sp[i].tag = "a" /\ has_attr(sp[i], "href"))
            => (sp[i].attrs["href"] = replacement /\ ~has_attr(sp[i], "ping"))

\* C7: an output file is written by one step only, the one after the
\* sanitizer, when the four passes are over and the job has written no output
\* yet; no other step of any job, failing or not, touches an output file
C7_OutputWrittenOnceAtEnd ==
    [][ OutputTouched
            => /\ pc = "write" /\ pc' = "finish"
               /\ PassesBegun
               /\ elt = 0 /\ k = 0 /\ css_i = 0
               /\ Sanitized(soup, link_replacement)
               /\ ~Occurs(JobLog, "output")
               /\ fs' = WriteFile(fs, output_file, soup) ]_vars

\* a run of two jobs ended: one job wrote its output, once, and the other
\* failed on its input and wrote none
C7_Witness ==
    /\ pc = "exited"
    /\ Cardinality({i \in DOMAIN log : log[i].op = "output"}) = 1
    /\ Len(files_to_process) = 2
    /\ \E i \in DOMAIN log : log[i] = Printed("Warning: Input file not found, skipping...")

(***************************************************************************)
(* C8                                                                      *)
(***************************************************************************)
\* no job descriptor is obtained: exactly one of --input and --output, or
\* neither and a configuration that is missing, not JSON or an empty list
NoDescriptor ==
    \/ Truthy(args.input) /\ ~Truthy(args.output)
    \/ ~Truthy(args.input) /\ Truthy(args.output)
    \/ /\ ~Truthy(args.input)
       /\ ~Truthy(args.output)
       /\ (config.status \in {"missing", "invalid"} \/ config.jobs = <<>>)

\* C8: when no job descriptor is obtained the run never enters the job loop
\* and ends with status 1: no input is read, no resources directory made, no
\* GET issued and no file written
C8_NoDescriptorNoJob ==
    NoDescriptor =>
        /\ pc \in {"start", "check", "exited"}
        /\ pc = "exited" => exit_status = 1
        /\ pc # "exited" => exit_status = -1
        /\ soup = <<>>
        /\ AbsStr(resources_dir) \notin dirs
        /\ DOMAIN fs = {AbsStr("in.html")}
        /\ \A i \in DOMAIN log : log[i].op = "print"

\* the run ended with status 1 for want of a descriptor
C8_Witness == NoDescriptor /\ pc = "exited" /\ exit_status = 1

(***************************************************************************)
(* C9                                                                      *)
(***************************************************************************)
\* C9: every key of the cache and every URL a pass hands to
\* create_local_filename starts with http:// or https://, and the key recorded
\* for a reference //host/path is https://host/path
C9_KeysCanonical ==
    [][ /\ \A i \in DOMAIN downloaded_resources' :
              StartsWithAny(downloaded_resources'[i].url, HttpPrefixes)
        /\ (AtAttrReference /\ ~InCache(downloaded_resources, attr_url))
              => StartsWithAny(attr_url, HttpPrefixes)
        /\ (AtAttrReference /\ StartsWith(attr_raw, "//")
                /\ Len(downloaded_resources') > Len(downloaded_resources))
              => downloaded_resources'[Len(downloaded_resources')].url = "https:" \o attr_raw
        /\ (AtCssReference /\ StartsWith(css_raw, "//")
                /\ Len(downloaded_resources') > Len(downloaded_resources))
              => downloaded_resources'[Len(downloaded_resources')].url = "https:" \o css_raw ]_vars

(***************************************************************************)
(* C10                                                                     *)
(***************************************************************************)
\* the job of the end-to-end scenario wrote its output and no GET of it failed
EndToEndRun ==
    /\ pc = "finish"
    /\ file_config = JobPlain
    /\ fs[AbsStr(input_file)] = EndToEndDoc
    /\ ~FailedGet(JobLog)

\* C10: in the end-to-end scenario the image is fetched from
\* https://example.com/logo.png and saved as resources/logo_<8 hex>.png, the
\* img src of the output is the path of that file from the directory of the
\* output, the script is gone and the anchor has href '#' and no ping
C10_EndToEnd ==
    EndToEndRun =>
        /\ Len(OutputDoc) = 2
        /\ OutputDoc[1].tag = "img"
        /\ LET src == OutputDoc[1].attrs["src"]
           IN  /\ Len(src) = 27
               /\ SubSeq(src, 1, 15) = "resources/logo_"
               /\ AllIn(SubSeq(src, 16, 23), HexChars)
               /\ SubSeq(src, 24, 27) = ".png"
               /\ \E i, j \in DOMAIN JobLog :
                    /\ i < j
                    /\ JobLog[i] = Event("GET", "https://example.com/logo.png", TRUE)
                    /\ JobLog[j] = Event("save", AbsStr(src), TRUE)
               /\ AbsStr(src) \in DOMAIN fs
               /\ fs[AbsStr(src)] = RemoteBody("https://example.com/logo.png")
        /\ OutputDoc[2] = Elem("a", "href" :> "#", "Go")

\* the end-to-end job wrote its output
C10_Witness == EndToEndRun /\ Occurs(JobLog, "output")

(***************************************************************************)
(* C11                                                                     *)
(***************************************************************************)
\* C11: the step of the attribute pass at an attribute whose value is empty
\* issues no GET, records nothing in the cache and leaves the document as it is
C11_EmptyValueSkipped ==
    [][ (InAttrPass /\ attr_raw = "")
            => (log' = log /\ downloaded_resources' = downloaded_resources /\ soup' = soup) ]_vars

(***************************************************************************)
(* C12: create_local_filename over a set of canonical URLs                 *)
(***************************************************************************)
\* canonical URLs, among them pairs with one final path segment on two hosts
CanonicalUrls ==
    { "https://example.com/logo.png",
      "https://www.google.com/logo.png",
      "https://cdn9079.example.com/logo.png",
      "https://cdn92352.example.com/logo.png",
      "https://cdn.example.com/a.png",
      "http://cdn.example.com/a.png",
      "https://example.com/css/site.css",
      "https://example.com/favicon.ico" }

\* the most URLs that are localized into one resources directory
MaxLocalized == 3

\* an empty resources directory and an empty cache
InitLocalize ==
    /\ args = Args(None, None)
    /\ config = ConfigOf(<<JobPlain>>)
    /\ fs = (AbsStr("in.html") :> <<>>)
    /\ dirs = {AbsStr(""), AbsStr(resources_dir)}
    /\ files_to_process = <<JobPlain>>
    /\ pc = "localize"
    /\ exit_status = -1
    /\ job = 1
    /\ soup = <<>>
    /\ downloaded_resources = <<>>
    /\ sel = 0
    /\ elt = 0
    /\ css_files = <<>>
    /\ css_i = 0
    /\ css_content = ""
    /\ css_urls = <<>>
    /\ k = 0
    /\ reported = <<>>
    /\ log = <<>>

\* what every pass does with a URL that is not in the cache and whose fetch
\* succeeds: create_local_filename, download_resource, and the record
Localize ==
    /\ pc = "localize"
    /\ Len(downloaded_resources) < MaxLocalized
    /\ \E url \in CanonicalUrls :
        /\ ~InCache(downloaded_resources, url)
        /\ LET local_path == create_local_filename(url, resources_dir)
               d          == download_resource(url, local_path, TRUE)
           IN  /\ fs' = d.fs
               /\ dirs' = d.dirs
               /\ log' = d.log
               /\ downloaded_resources' =
                      CachePut(downloaded_resources, url,
                               relative_path_of(local_path, output_file))
    /\ UNCHANGED <<args, config, files_to_process, pc, exit_status, job, soup, sel, elt,
                   css_files, css_i, css_content, css_urls, k, reported>>

SpecLocalize == InitLocalize /\ [][Localize]_vars

\* C12: two distinct URLs are never localized to one path, so the file saved
\* for a URL still holds the body of that URL after any later download
C12_DistinctPaths ==
    /\ \A i, j \in DOMAIN downloaded_resources :
          i # j => downloaded_resources[i].path # downloaded_resources[j].path
    /\ \A i \in DOMAIN downloaded_resources :
          fs[AbsStr(downloaded_resources[i].path)] = RemoteBody(downloaded_resources[i].url)

(***************************************************************************)
(* C13                                                                     *)
(***************************************************************************)
\* the step fetched a resource
Fetched == \E i \in DOMAIN NewEvents : NewEvents[i].op = "GET" /\ NewEvents[i].ok

\* the path from the directory of the output to the local file of url
LocalizedPath(url) ==
    relative_path_of(create_local_filename(url, resources_dir), output_file)

\* C13: in each pass, a step that fetches the resource of a reference puts the
\* relative path of the local file in the place of the reference as it is
\* written in the attribute or the CSS text, and records the resolved URL
\* with that path
C13_SuccessRewritesAndRecords ==
    [][ /\ (AtAttrReference /\ Fetched)
            => /\ soup'[elt].attrs[attr] = LocalizedPath(attr_url)
               /\ downloaded_resources' =
                      Append(downloaded_resources,
                             [url |-> attr_url, path |-> LocalizedPath(attr_url)])
        /\ (AtCssReference /\ Fetched)
            => /\ css_content' = Replace(css_content, css_raw, LocalizedPath(css_url))
               /\ downloaded_resources' =
                      Append(downloaded_resources,
                             [url |-> css_url, path |-> LocalizedPath(css_url)]) ]_vars

(***************************************************************************)
(* C14                                                                     *)
(***************************************************************************)
\* the files download_resource wrote in the job
SavedPaths == {JobLog[i].arg : i \in {j \in DOMAIN JobLog : JobLog[j].op = "save"}}

\* C14: the file the external-CSS pass opens for a stylesheet is the file
\* download_resource wrote for it, and when the pass is over every stylesheet
\* of the cache has been written back to the file that was saved for it
C14_StylesheetFileRewritten ==
    /\ (pc = "css" /\ css_i >= 1 /\ css_i <= Len(css_files))
          => AbsStr(css_file) \in SavedPaths
    /\ pc = "style"
          => \A i \in DOMAIN downloaded_resources :
                EndsWith(downloaded_resources[i].path, ".css")
                    => \E j \in DOMAIN JobLog :
                          JobLog[j] = Event("rewrite",
                                            AbsStr(create_local_filename(downloaded_resources[i].url,
                                                                         resources_dir)),
                                            TRUE)

(***************************************************************************)
(* C15                                                                     *)
(***************************************************************************)
IsDelay(e) == e.op = "sleep" /\ e.arg = "0.1"

\* C15: in a job a fetch that succeeds is over, with its file saved, before
\* anything else happens, and the delay of 0.1 lies between it and every
\* later fetch of the job
C15_DelayAfterSuccess ==
    \A i \in DOMAIN JobLog :
        (JobLog[i].op = "GET" /\ JobLog[i].ok)
            => /\ i < Len(JobLog) /\ JobLog[i + 1].op = "save"
               /\ \A j \in DOMAIN JobLog :
                     (j > i /\ JobLog[j].op = "GET")
                        => \E m \in (i + 1)..(j - 1) : IsDelay(JobLog[m])

\* a job fetched a resource and, later, went for another one in a later pass
C15_Witness ==
    \E i, j \in DOMAIN JobLog :
        /\ i < j
        /\ JobLog[i].op = "GET" /\ JobLog[i].ok
        /\ JobLog[j].op = "GET"
        /\ \E m \in i..j : JobLog[m] = Printed("Processing inline style attributes for background images...")

(***************************************************************************)
(* C16                                                                     *)
(***************************************************************************)
\* the URL download_resource requests for a cache key
RequestOf(url) == IF StartsWith(url, "//") THEN "https:" \o url ELSE url

FetchedInJob(events, url) ==
    \E i \in DOMAIN events :
        events[i].op = "GET" /\ events[i].ok /\ events[i].arg = RequestOf(url)

\* C16: a job starts with an empty cache, and whatever the jobs before it
\* recorded, the cache of a job holds only URLs the job itself fetched
C16_CachePerJob ==
    [][ /\ (pc = "open" /\ pc' = "attrs") => downloaded_resources' = <<>>
        /\ \A i \in DOMAIN downloaded_resources' :
               FetchedInJob(JobLog', downloaded_resources'[i].url) ]_vars

\* the second job of a run fetched, and recorded, a URL the first job had
\* fetched and recorded as well
C16_Witness ==
    /\ job = 2
    /\ \E i \in DOMAIN downloaded_resources :
          /\ FetchedInJob(JobLog, downloaded_resources[i].url)
          /\ FetchedInJob(SubSeq(log, 1, JobStart), downloaded_resources[i].url)

(***************************************************************************)
(* C17                                                                     *)
(***************************************************************************)
NotScript(e) == e.tag # "script"

IsLink(e) == e.tag = "a" /\ "href" \in DOMAIN e.attrs

\* what the sanitizer may make of an element it keeps
SanitizedFrom(before, after, replacement) ==
    IF IsLink(before)
    THEN /\ after.tag = before.tag
         /\ after.string = before.string
         /\ DOMAIN after.attrs = DOMAIN before.attrs \ {"ping"}
         /\ after.attrs["href"] = replacement
         /\ \A a \in DOMAIN after.attrs \ {"href"} : after.attrs[a] = before.attrs[a]
    ELSE after = before

\* C17: the sanitizer step removes the script elements and, on the anchors
\* with an href, sets the href and removes the ping; every other element,
\* attribute and text of the document is after the step what it was before
C17_SanitizerFrame ==
    [][ (pc = "sanitize" /\ pc' = "write")
            => /\ Len(soup') = Len(SelectSeq(soup, NotScript))
               /\ \A i \in DOMAIN soup' :
                     SanitizedFrom(SelectSeq(soup, NotScript)[i], soup'[i], link_replacement) ]_vars

\* the sanitizer went over a document with an anchor without href that has a
\* ping, next to an element a rewrite pass had localized
C17_Witness ==
    /\ pc = "write"
    /\ \E i \in DOMAIN soup :
          soup[i].tag = "a" /\ DOMAIN soup[i].attrs = {"ping"}
    /\ \E i \in DOMAIN soup :
          "src" \in DOMAIN soup[i].attrs /\ StartsWith(soup[i].attrs["src"], "resources/")

(***************************************************************************)
(* C18                                                                     *)
(***************************************************************************)
\* the steps that end a job, with which its cache goes
JobEnds == pc \in {"finish", "except_file_not_found", "except_exception"}

\* C18: no step of a job removes or changes an entry of the cache, and a
\* reference found in the cache is rewritten to the path its entry has had
\* since it was recorded
C18_CacheGrowsOnly ==
    [][ ~JobEnds
            => /\ \A i \in DOMAIN downloaded_resources :
                     /\ i \in DOMAIN downloaded_resources'
                     /\ downloaded_resources'[i] = downloaded_resources[i]
               /\ \A i \in DOMAIN downloaded_resources :
                     (AtAttrReference /\ attr_url = downloaded_resources[i].url)
                        => soup'[elt].attrs[attr] = downloaded_resources'[i].path ]_vars

\* the passes of a job are over and its cache holds the two resources the
\* job fetched, recorded one after the other
C18_Witness ==
    /\ pc = "sanitize"
    /\ Len(downloaded_resources) >= 2
    /\ Cardinality({i \in DOMAIN JobLog : JobLog[i].op = "GET" /\ JobLog[i].ok}) >= 2

(***************************************************************************)
(* C19                                                                     *)
(***************************************************************************)
InJob == pc \in {"attrs", "css", "css_urls", "style", "style_urls", "style_attr",
                 "style_attr_urls", "sanitize", "write", "finish"}

SuccessfulGets(events) == {i \in DOMAIN events : events[i].op = "GET" /\ events[i].ok}

\* the URLs a job fetched
FetchedUrls(events) == {events[i].arg : i \in SuccessfulGets(events)}

\* the job printed its 'Downloaded N resources' and the next has not begun
JobReported ==
    pc = "loop" /\ JobLog # <<>> /\ JobLog[Len(JobLog)] = Printed("Completed processing")

\* C19: while a job runs its cache has as many entries as the job made
\* successful fetches and every key was fetched with success, and the number
\* the job reports at its end is the number of distinct resources it fetched
C19_CountsAgree ==
    /\ InJob => /\ Len(downloaded_resources) = Cardinality(SuccessfulGets(JobLog))
                /\ \A i \in DOMAIN downloaded_resources :
                      RequestOf(downloaded_resources[i].url) \in FetchedUrls(JobLog)
    /\ JobReported => reported[Len(reported)] = Cardinality(FetchedUrls(JobLog))

=============================================================================
